---- MODULE Spec2Model ----
(***************************************************************************)
(* StackedGAN on MNIST (chapter6-disentangled-gan/stackedgan-mnist-6.2.1): *)
(* the command line, the construction of the six networks and of the two   *)
(* adversarial composites, and the alternating training loop.              *)
(*                                                                         *)
(* A network's parameter set is the pair (where it came from, how many     *)
(* optimizer steps were applied to it).  An array is the sequence of its   *)
(* rows.  predict() is row-wise and opaque: a predicted row records the    *)
(* network, the parameters it had and the input rows it was computed from. *)
(* A random draw returns one of a small set of whole arrays; the files     *)
(* named on the command line exist and load.                               *)
(***************************************************************************)
EXTENDS Integers, Sequences, FiniteSets, TLC

VARIABLES
    pc,            \* position of the single thread of control
    args,          \* the parsed command line
    error,         \* the exception that ended the process, "none" if none
    generator,     \* main: the model loaded from --generator
    encoder,       \* build_and_train_models: what the name `encoder` is bound to
    w,             \* parameter set of each network
    trainable,     \* the trainable flag of each network
    collected,     \* per compiled model: the networks its train step updates
    train_steps,   \* train: the step budget
    i,             \* train: the loop index, the number of completed steps
    noise_params,  \* train: [noise_class, z0, z1], the sample seed
    z0, z1,        \* train: the local names z0 and z1
    real_images,   \* train: locals that live from one update to the next
    fake_fc3,
    fake_labels,
    fake_z1,
    y,
    fed,           \* per trained model: the arguments of its last train_on_batch
    ncalls,        \* per trained model: how many train_on_batch calls it got
    pngs,          \* sample grids written, as <<directory, step>>
    last_plot,     \* the arguments and result of the last completed plot_images
    h5             \* model files written

vars == <<pc, args, error, generator, encoder, w, trainable, collected,
          train_steps, i, noise_params, z0, z1, real_images, fake_fc3,
          fake_labels, fake_z1, y, fed, ncalls, pngs, last_plot, h5>>

----------------------------------------------------------------------------
(* Bounds and program constants *)

batch_size == 2          \* rows of a training half batch (64 in the program)
SeedRows == 2            \* rows of the sample seed (16 in the program)
MaxSteps == 2            \* largest step budget of the short runs
save_interval == 500
TestLabels == 10         \* test_generator's own num_labels

\* Bounds that are sets: the outcomes of one random draw, the single outcome
\* of the loop's draws in the long runs, and the step budgets of the long runs
Draws == {0, 1}
FixedDraws == {0}
LongBudgets == {save_interval, save_interval + 1, 2 * save_interval}

TrainLabels == <<0, 1, 2>>   \* the raw labels of the training images
x_train == [j \in 1..Len(TrainLabels) |-> [image |-> j]]

RECURSIVE SeqMax(_)
SeqMax(s) ==
    IF Len(s) = 1 THEN s[1]
    ELSE LET m == SeqMax(Tail(s)) IN IF s[1] > m THEN s[1] ELSE m

num_labels == SeqMax(TrainLabels) + 1

Nets == {"e0", "e1", "g0", "g1", "d0", "d1"}
Trainers == {"d1", "d0", "a1", "a0"}
model_name == "stackedgan_mnist"

None == <<>>
Some(v) == <<v>>

----------------------------------------------------------------------------
(* numpy and Keras, as far as the program uses them *)

Ones(n) == [r \in 1..n |-> 1]

\* y[batch_size:, :] = 0
ZeroFrom(a, k) == [r \in 1..Len(a) |-> IF r > k THEN 0 ELSE a[r]]

\* Concatenate with the halves in the other order
Concatenate_fake_first(a, b) == b \o a

Concatenate(a, b) == a \o b

\* np.eye(n)[k]
EyeRow(n, k) == [j \in 0..(n - 1) |-> IF j = k THEN 1 ELSE 0]

\* np.random.uniform(size=[n, z_dim]), outcome k
Uniform(k, n) == [r \in 1..n |-> [draw |-> k, row |-> r]]

\* np.random.randint(0, high, size=n) and np.random.choice(high, n), outcome k
RandInt(k, high, n) == [r \in 1..n |-> (k + r) % high]

\* np.eye(n)[np.random.choice(n, rows)]
OneHotDraw(k, n, rows) ==
    LET idx == RandInt(k, n, rows) IN [r \in 1..rows |-> EyeRow(n, idx[r])]

\* model.predict(ins): row r of the output comes from row r of every input
Predict(net, p, ins) ==
    [r \in 1..Len(ins[1]) |->
        [net |-> net, p |-> p, in |-> [k \in 1..Len(ins) |-> ins[k][r]]]]

FreshParams == [src |-> "init", ver |-> 0]
FileParams == [src |-> "file", ver |-> 0]
Unbuilt == [src |-> "unbuilt", ver |-> 0]

\* one optimizer step on a parameter set
Bump(p) == [p EXCEPT !.ver = @ + 1]

\* the networks whose layers a model is made of
Members(m) ==
    CASE m = "d0" -> {"d0"}
      [] m = "d1" -> {"d1"}
      [] m = "encoder" -> {"e0", "e1"}
      [] m = "a0" -> {"g0", "d0", "e0"}
      [] m = "a1" -> {"g1", "d1", "e1"}

\* Collect with the trainable flags ignored
Collect_unfrozen(m, flags) == Members(m)

\* model.compile(): the trainable weights are collected from the flags as
\* they are at this moment
Collect(m, flags) == {n \in Members(m) : flags[n]}

\* Updated with the flags read at the train step instead of at compile
Updated_by_flag(m) == {n \in Members(m) : trainable[n]}

\* the networks one train step of model m updates
Updated(m) == collected[m]

\* model.train_on_batch(x, t), or model.fit for the encoder
Trained(m) == [n \in Nets |-> IF n \in Updated(m) THEN Bump(w[n]) ELSE w[n]]

TrainOnBatch(m, x, t) ==
    /\ w' = Trained(m)
    /\ fed' = [fed EXCEPT ![m] = [x |-> x, y |-> t]]
    /\ ncalls' = [ncalls EXCEPT ![m] = @ + 1]

\* Python values that plot_images unpacks
Tuple(items) == [py |-> "tuple", items |-> items]
ModelObject(name) == [py |-> "Model", items |-> <<name>>]

----------------------------------------------------------------------------
(* The command line and the inference path *)

\* argparse: -g, -e, -d, -a, -b; the overrides are read only with -g
CommandLines ==
    [generator : {TRUE}, encoder : BOOLEAN, digit : {None, Some(3)},
     code1 : {None, Some(0)}, code2 : {None, Some(0)}]
    \cup
    [generator : {FALSE}, encoder : BOOLEAN, digit : {None},
     code1 : {None}, code2 : {None}]

NoCall == [x |-> <<>>, y |-> <<>>]
NoPlot == [dir |-> "", step |-> 0, show |-> FALSE, seed |-> <<>>, images |-> <<>>]

Init ==
    /\ pc = "main"
    /\ args \in CommandLines
    /\ error = "none"
    /\ generator = None
    /\ encoder = "unbound"
    /\ w = [n \in Nets |-> Unbuilt]
    /\ trainable = [n \in Nets |-> TRUE]
    /\ collected = [m \in {"d0", "d1", "encoder", "a0", "a1"} |-> {}]
    /\ train_steps = 0
    /\ i = 0
    /\ noise_params = <<>>
    /\ z0 = <<>>
    /\ z1 = <<>>
    /\ real_images = <<>>
    /\ fake_fc3 = <<>>
    /\ fake_labels = <<>>
    /\ fake_z1 = <<>>
    /\ y = <<>>
    /\ fed = [m \in Trainers |-> NoCall]
    /\ ncalls = [m \in Trainers |-> 0]
    /\ pngs = {}
    /\ last_plot = NoPlot
    /\ h5 = {}

build_vars == <<encoder, w, trainable, collected, train_steps>>
train_vars == <<i, noise_params, z0, z1, real_images, fake_fc3, fake_labels,
                fake_z1, y, fed, ncalls>>
out_vars == <<pngs, last_plot, h5>>

\* __main__
Main ==
    /\ pc = "main"
    /\ IF args.generator
       THEN /\ generator' = Some(ModelObject("generator"))
            /\ pc' = "test_generator"
       ELSE /\ generator' = generator
            /\ pc' = "build"
    /\ UNCHANGED <<args, error, build_vars, train_vars, out_vars>>

\* plot_images: the exception its unpacking statements raise, "none" if none
PlotRaises(generators, nparams) ==
    IF generators.py # "tuple" \/ Len(generators.items) # 2 THEN "TypeError"
    ELSE IF Len(nparams) # 3 THEN "ValueError"
    ELSE "none"

\* plot_images: the grid is g0 applied to g1's features for the seed
PlotGrid(nparams) ==
    LET fc3 == Predict("g1", w["g1"], <<nparams[1], nparams[3]>>)
    IN  Predict("g0", w["g0"], <<fc3, nparams[2]>>)

PlotImages(generators, nparams, show, step, dir) ==
    LET e == PlotRaises(generators, nparams) IN
    /\ error' = e
    /\ IF e = "none"
       THEN /\ pngs' = pngs \cup {<<dir, step>>}
            /\ last_plot' = [dir |-> dir, step |-> step, show |-> show,
                             seed |-> nparams, images |-> PlotGrid(nparams)]
       ELSE UNCHANGED <<pngs, last_plot>>

\* np.ones((n, 1)) * v
Full(v, n) == [r \in 1..n |-> [draw |-> v, row |-> 0]]

\* test_generator, with its call of plot_images
TestGenerator(D) ==
    /\ pc = "test_generator"
    /\ \E k0 \in D, k1 \in D, k2 \in D, k3 \in D :
         LET class_label == args.digit
             noise_input == Uniform(k0, SeedRows)
             noise_class ==
                 IF class_label = None
                 THEN OneHotDraw(k1, TestLabels, SeedRows)
                 ELSE [r \in 1..SeedRows |-> EyeRow(TestLabels, class_label[1])]
             step == IF class_label = None THEN 0 ELSE class_label[1]
             noise_code1 ==
                 \* np.random.normal, a draw like any other
                 IF args.code1 = None THEN Uniform(k2, SeedRows)
                 ELSE Full(args.code1[1], SeedRows)
             noise_code2 ==
                 IF args.code2 = None THEN Uniform(k3, SeedRows)
                 ELSE Full(args.code2[1], SeedRows)
         IN  /\ w' = w
             /\ PlotImages(generator[1],
                           <<noise_input, noise_class, noise_code1, noise_code2>>,
                           TRUE, step, "test_outputs")
    /\ pc' = IF error' = "none" THEN "done" ELSE "error"
    /\ UNCHANGED <<args, generator, encoder, trainable, collected, train_steps,
                   train_vars, h5>>

----------------------------------------------------------------------------
(* build_and_train_models *)

\* the networks are built, d0 and d1 compiled, the stacked encoder defined
BuildModels(budgets) ==
    /\ pc = "build"
    /\ train_steps' \in budgets
    /\ w' = [n \in Nets |-> FreshParams]
    /\ trainable' = [n \in Nets |-> TRUE]
    /\ collected' = [collected EXCEPT !["d0"] = Collect("d0", trainable'),
                                      !["d1"] = Collect("d1", trainable')]
    /\ encoder' = "stacked"
    /\ pc' = "encoder"
    /\ UNCHANGED <<args, error, generator, train_vars, out_vars>>

\* load_model(encoder_saved_model) returns a new model, bound to `encoder`
LoadEncoder ==
    /\ encoder' = "loaded"
    /\ UNCHANGED <<w, collected, h5>>

\* train_encoder(encoder, ...): compile, fit, save
TrainEncoder ==
    /\ collected' = [collected EXCEPT !["encoder"] = Collect("encoder", trainable)]
    /\ w' = [n \in Nets |-> IF n \in collected'["encoder"] THEN Bump(w[n]) ELSE w[n]]
    /\ h5' = h5 \cup {"encoder"}
    /\ UNCHANGED encoder

\* "Train or load encoder saved model"
EncoderStep ==
    /\ pc = "encoder"
    /\ IF args.encoder THEN LoadEncoder ELSE TrainEncoder
    /\ pc' = "adversarial"
    /\ UNCHANGED <<args, error, generator, trainable, train_steps, train_vars,
                   pngs, last_plot>>

\* the parameters behind the name `encoder`: (e0 part, e1 part)
EncoderParams ==
    IF encoder = "loaded" THEN <<FileParams, FileParams>> ELSE <<w["e0"], w["e1"]>>

\* the flags at a0.compile, then at a1.compile
FlagsA0 == [trainable EXCEPT !["e0"] = FALSE, !["d0"] = FALSE]
FlagsA1 == [FlagsA0 EXCEPT !["e1"] = FALSE, !["d1"] = FALSE]

\* "Build adversarial model = generator + discriminator"
BuildAdversarial ==
    /\ pc = "adversarial"
    /\ trainable' = FlagsA1
    /\ collected' = [collected EXCEPT !["a0"] = Collect("a0", FlagsA0),
                                      !["a1"] = Collect("a1", FlagsA1)]
    /\ pc' = "train"
    /\ UNCHANGED <<args, error, generator, encoder, w, train_steps, train_vars,
                   out_vars>>

----------------------------------------------------------------------------
(* train *)

\* NextPhase with the adversarial update of stack 1 moved before d0's update
NextPhase_a1_first(p) ==
    CASE p = "d1" -> "a1"
      [] p = "a1" -> "d0"
      [] p = "d0" -> "a0"
      [] p = "a0" -> "end"

\* the statement order of the loop body: which update follows which
NextPhase(p) ==
    CASE p = "d1" -> "d0"
      [] p = "d0" -> "a1"
      [] p = "a1" -> "a0"
      [] p = "a0" -> "end"

\* the seed is drawn once, before the loop
TrainInit(D) ==
    /\ pc = "train"
    /\ \E k0 \in D, k1 \in D, kc \in D :
         /\ z0' = Uniform(k0, SeedRows)
         /\ z1' = Uniform(k1, SeedRows)
         /\ noise_params' = <<OneHotDraw(kc, num_labels, SeedRows), z0', z1'>>
    /\ i' = 0
    /\ pc' = IF train_steps > 0 THEN "d1" ELSE "done"
    /\ UNCHANGED <<args, error, generator, build_vars, real_images, fake_fc3,
                   fake_labels, fake_z1, y, fed, ncalls, out_vars>>

\* AfterRebind as if the list held the name and not the array
AfterRebind_by_name(nparams, k, array) == [nparams EXCEPT ![k] = array]

\* what the list noise_params holds after a local name is bound to a new array
AfterRebind(nparams, k, array) == nparams

\* "Stack 1": real and fake features, then d1.train_on_batch
D1Update(D) ==
    /\ pc = "d1"
    /\ \E ki \in D, kr \in D, kf \in D, kl \in D :
         LET rand_indexes == RandInt(ki, Len(x_train), batch_size)
             real_fc3 == Predict("e0", w["e0"], <<real_images'>>)
             real_z1 == Uniform(kr, batch_size)
             fc3 == Concatenate(real_fc3, fake_fc3')
         IN  /\ real_images' = [r \in 1..batch_size |-> x_train[rand_indexes[r] + 1]]
             /\ fake_z1' = Uniform(kf, batch_size)
             /\ fake_labels' = OneHotDraw(kl, num_labels, batch_size)
             /\ fake_fc3' = Predict("g1", w["g1"], <<fake_labels', fake_z1'>>)
             /\ z1' = Concatenate(real_z1, fake_z1')
             /\ y' = ZeroFrom(Ones(2 * batch_size), batch_size)
             /\ TrainOnBatch("d1", <<fc3>>, <<y', z1'>>)
             /\ noise_params' = AfterRebind(noise_params, 3, z1')
    /\ pc' = NextPhase("d1")
    /\ UNCHANGED <<args, error, generator, encoder, trainable, collected,
                   train_steps, i, z0, out_vars>>

\* "Stack 0": real and fake images, then d0.train_on_batch
D0Update(D) ==
    /\ pc = "d0"
    /\ \E kr \in D, kf \in D :
         LET real_z0 == Uniform(kr, batch_size)
             fake_z0 == Uniform(kf, batch_size)
             fake_images == Predict("g0", w["g0"], <<fake_fc3, fake_z0>>)
             x == Concatenate(real_images, fake_images)
         IN  /\ z0' = Concatenate(real_z0, fake_z0)
             /\ TrainOnBatch("d0", <<x>>, <<y, z0'>>)
             /\ noise_params' = AfterRebind(noise_params, 2, z0')
    /\ pc' = NextPhase("d0")
    /\ UNCHANGED <<args, error, generator, encoder, trainable, collected,
                   train_steps, i, z1, real_images, fake_fc3, fake_labels,
                   fake_z1, y, out_vars>>

\* A1Update with the labels of the discriminator updates left in y
A1Update_stale_y(D) ==
    /\ pc = "a1"
    /\ \E kf \in D, kl \in D :
         /\ fake_z1' = Uniform(kf, batch_size)
         /\ fake_labels' = OneHotDraw(kl, num_labels, batch_size)
         /\ y' = y
         /\ TrainOnBatch("a1", <<fake_labels', fake_z1'>>,
                         <<y', fake_z1', fake_labels'>>)
    /\ pc' = NextPhase("a1")
    /\ UNCHANGED <<args, error, generator, encoder, trainable, collected,
                   train_steps, i, noise_params, z0, z1, real_images, fake_fc3,
                   out_vars>>

\* "Adversarial training": a1.train_on_batch on a new (labels, z1) batch
A1Update(D) ==
    /\ pc = "a1"
    /\ \E kf \in D, kl \in D :
         /\ fake_z1' = Uniform(kf, batch_size)
         /\ fake_labels' = OneHotDraw(kl, num_labels, batch_size)
         /\ y' = Ones(batch_size)
         /\ TrainOnBatch("a1", <<fake_labels', fake_z1'>>,
                         <<y', fake_z1', fake_labels'>>)
    /\ pc' = NextPhase("a1")
    /\ UNCHANGED <<args, error, generator, encoder, trainable, collected,
                   train_steps, i, noise_params, z0, z1, real_images, fake_fc3,
                   out_vars>>

\* A0Update with the features g1 predicted for the discriminator updates
A0Update_stale_fc3(D) ==
    /\ pc = "a0"
    /\ \E kf \in D :
         LET fake_z0 == Uniform(kf, batch_size)
         IN  /\ fake_fc3' = fake_fc3
             /\ TrainOnBatch("a0", <<fake_fc3', fake_z0>>,
                             <<y, fake_z0, fake_fc3'>>)
    /\ pc' = NextPhase("a0")
    /\ UNCHANGED <<args, error, generator, encoder, trainable, collected,
                   train_steps, i, noise_params, z0, z1, real_images,
                   fake_labels, fake_z1, y, out_vars>>

\* a0.train_on_batch on g1's features for the batch a1 was trained on
A0Update(D) ==
    /\ pc = "a0"
    /\ \E kf \in D :
         LET fake_z0 == Uniform(kf, batch_size)
         IN  /\ fake_fc3' = Predict("g1", w["g1"], <<fake_labels, fake_z1>>)
             /\ TrainOnBatch("a0", <<fake_fc3', fake_z0>>,
                             <<y, fake_z0, fake_fc3'>>)
    /\ pc' = NextPhase("a0")
    /\ UNCHANGED <<args, error, generator, encoder, trainable, collected,
                   train_steps, i, noise_params, z0, z1, real_images,
                   fake_labels, fake_z1, y, out_vars>>

\* whether the step that just ended plots, and whether it saves
PlotsAt(step) == step % save_interval = 0
SavesAt(step, budget) == PlotsAt(step) /\ step = budget

\* the end of the loop body: save and plot on the interval, then the loop test
StepEnd ==
    /\ pc = "end"
    /\ w' = w
    /\ IF PlotsAt(i + 1)
       THEN /\ h5' = IF SavesAt(i + 1, train_steps)
                     THEN h5 \cup {"g1", "g0"} ELSE h5
            /\ PlotImages(Tuple(<<"g0", "g1">>), noise_params,
                          SavesAt(i + 1, train_steps), i + 1, model_name)
       ELSE UNCHANGED <<h5, pngs, last_plot, error>>
    /\ i' = i + 1
    /\ pc' = IF error' # "none" THEN "error"
             ELSE IF i + 1 < train_steps THEN "d1" ELSE "done"
    /\ UNCHANGED <<args, generator, encoder, trainable, collected, train_steps,
                   noise_params, z0, z1, real_images, fake_fc3, fake_labels,
                   fake_z1, y, fed, ncalls>>

----------------------------------------------------------------------------
(* Specifications *)

Next ==
    \/ Main
    \/ TestGenerator(Draws)
    \/ BuildModels(1..MaxSteps)
    \/ EncoderStep
    \/ BuildAdversarial
    \/ TrainInit(Draws)
    \/ D1Update(Draws)
    \/ D0Update(Draws)
    \/ A1Update(Draws)
    \/ A0Update(Draws)
    \/ StepEnd

Spec == Init /\ [][Next]_vars

\* the long runs: step budgets around the save interval, every draw of the
\* loop body with outcome 0
NextLong ==
    \/ Main
    \/ TestGenerator(Draws)
    \/ BuildModels(LongBudgets)
    \/ EncoderStep
    \/ BuildAdversarial
    \/ TrainInit(Draws)
    \/ D1Update(FixedDraws)
    \/ D0Update(FixedDraws)
    \/ A1Update(FixedDraws)
    \/ A0Update(FixedDraws)
    \/ StepEnd

SpecLong == Init /\ [][NextLong]_vars

----------------------------------------------------------------------------
(* Properties *)

LoopPcs == {"d1", "d0", "a1", "a0", "end"}
Trained_ == ~args.generator /\ pc = "done"
FakeRows == (batch_size + 1)..(2 * batch_size)
RealRows == 1..batch_size
FakeHalf(a) == SubSeq(a, batch_size + 1, 2 * batch_size)

\* C1: in every step the four updates happen once each, in the order d1, d0,
\* a1, a0, and the four of one step are over before the next step's begin:
\* the call counts form a staircase that never opens by more than one, every
\* count is the number of completed steps at the head of the loop body, and
\* each call is one parameter update of the network it trains.
C1_UpdateOrder ==
    /\ ncalls["d1"] >= ncalls["d0"]
    /\ ncalls["d0"] >= ncalls["a1"]
    /\ ncalls["a1"] >= ncalls["a0"]
    /\ ncalls["a0"] >= ncalls["d1"] - 1
    /\ pc = "d1" => \A m \in Trainers : ncalls[m] = i
    /\ pc = "end" => \A m \in Trainers : ncalls[m] = i + 1
    /\ Trained_ => \A m \in Trainers : ncalls[m] = train_steps
    /\ pc \in LoopPcs \cup {"done"} =>
          /\ w["d1"].ver = ncalls["d1"]
          /\ w["d0"].ver = ncalls["d0"]
          /\ w["g1"].ver = ncalls["a1"]
          /\ w["g0"].ver = ncalls["a0"]

C1_Witness ==
    /\ Trained_
    /\ train_steps > 1
    /\ \A m \in Trainers : ncalls[m] = train_steps

\* C2: a train step of a0 changes the parameters of no network but g0, and a
\* train step of a1 those of no network but g1.
C2_Freezing ==
    [][ /\ ncalls'["a0"] # ncalls["a0"] =>
              \A n \in Nets \ {"g0"} : w'[n] = w[n]
        /\ ncalls'["a1"] # ncalls["a1"] =>
              \A n \in Nets \ {"g1"} : w'[n] = w[n] ]_vars

C2_Witness ==
    /\ ncalls["a0"] > 0
    /\ ncalls["a1"] > 0
    /\ w["g0"].ver = ncalls["a0"]
    /\ w["g1"].ver = ncalls["a1"]
    /\ w["d0"].ver = ncalls["d0"]
    /\ w["e0"].ver <= 1

\* C3: after a training run the grid of the final step and of every step that
\* is a multiple of 500 is written, and g1 and g0 are saved.
C3_PlotAndSave ==
    Trained_ =>
        /\ {"g1", "g0"} \subseteq h5
        /\ <<model_name, train_steps>> \in pngs
        /\ \A s \in 1..train_steps :
              s % save_interval = 0 => <<model_name, s>> \in pngs

\* C4: with a generator file the process ends without an error, having
\* written exactly one grid and trained nothing; without one it trains.
C4_InferenceOnly ==
    pc \in {"done", "error"} =>
        IF args.generator
        THEN /\ pc = "done"
             /\ error = "none"
             /\ Cardinality(pngs) = 1
             /\ \A m \in Trainers : ncalls[m] = 0
        ELSE \A m \in Trainers : ncalls[m] = train_steps

\* C5: with an encoder file, e0 and e1 hold the parameters loaded from the
\* file while the adversarial training runs, and the features of the real
\* images fed to d1 are computed with them.
C5_LoadedEncoderUsed ==
    (args.encoder /\ pc \in LoopPcs \cup {"done"}) =>
        /\ w["e0"] = FileParams
        /\ w["e1"] = FileParams
        /\ ncalls["d1"] > 0 =>
              \A r \in RealRows : fed["d1"].x[1][r].p = FileParams

\* C6: at the end of a step, the features a0 was trained on are g1's, with
\* the parameters g1 has after this step's a1 update, for the (labels, z1)
\* batch a1 was trained on; they are one update newer than the features of
\* this step's d1 batch.
C6_FreshFeatures ==
    pc = "end" =>
        /\ fed["a0"].x[1] =
              Predict("g1", w["g1"], <<fed["a1"].x[1], fed["a1"].x[2]>>)
        /\ w["g1"].ver = ncalls["a1"]
        /\ \A r \in RealRows :
              fed["a0"].x[1][r].p.ver = fed["d1"].x[1][batch_size + r].p.ver + 1

C6_Witness ==
    /\ pc = "end"
    /\ i > 0
    /\ fed["a0"].x[1] # FakeHalf(fed["d1"].x[1])
    /\ fed["a0"].x[2] # FakeHalf(fed["d0"].y[2])
    /\ fed["a1"].x[2] # FakeHalf(fed["d1"].y[2])

\* C7: once the seed is drawn, no step of the loop changes noise_params, and
\* every plot_images call of train gets it, whatever z0 and z1 are bound to.
C7_SeedFixed ==
    [][ /\ pc \in LoopPcs => noise_params' = noise_params
        /\ (pc = "end" /\ last_plot' # last_plot) =>
              last_plot'.seed = noise_params ]_vars

C7_Witness ==
    /\ Trained_
    /\ <<model_name, save_interval>> \in pngs
    /\ <<model_name, 2 * save_interval>> \in pngs
    /\ last_plot.seed = noise_params
    /\ Len(noise_params[2]) = SeedRows
    /\ z0 # noise_params[2]
    /\ z1 # noise_params[3]

\* C8: the batches of d1 and d0 have 2 * batch_size rows; the first half is
\* real with label 1, the second half is generated with label 0, each
\* generated row's z target is the z it was generated from, and d0's
\* generated images come from the generated features of the same step's d1
\* batch.
D1BatchAligned ==
    LET x == fed["d1"].x[1]
        lab == fed["d1"].y[1]
        zt == fed["d1"].y[2]
    IN  /\ Len(x) = 2 * batch_size
        /\ Len(lab) = 2 * batch_size
        /\ Len(zt) = 2 * batch_size
        /\ \A r \in RealRows :
              /\ x[r].net = "e0"
              /\ x[r].in[1] \in {x_train[j] : j \in DOMAIN x_train}
              /\ lab[r] = 1
        /\ \A r \in FakeRows :
              /\ x[r].net = "g1"
              /\ x[r].in[2] = zt[r]
              /\ lab[r] = 0

D0BatchAligned ==
    LET x == fed["d0"].x[1]
        lab == fed["d0"].y[1]
        zt == fed["d0"].y[2]
    IN  /\ Len(x) = 2 * batch_size
        /\ Len(lab) = 2 * batch_size
        /\ Len(zt) = 2 * batch_size
        /\ \A r \in RealRows :
              /\ DOMAIN x[r] = {"image"}
              /\ lab[r] = 1
        /\ \A r \in FakeRows :
              /\ DOMAIN x[r] = {"net", "p", "in"}
              /\ x[r].net = "g0"
              /\ x[r].in[2] = zt[r]
              /\ lab[r] = 0
              /\ x[r].in[1] = fed["d1"].x[1][r]

C8_BatchesAligned ==
    /\ ncalls["d1"] > 0 => D1BatchAligned
    /\ (ncalls["d0"] > 0 /\ ncalls["d0"] = ncalls["d1"]) => D0BatchAligned

C8_Witness ==
    /\ ncalls["d0"] = 2
    /\ ncalls["d1"] = 2
    /\ D0BatchAligned
    /\ fed["d0"].y[2][1] # fed["d0"].y[2][batch_size + 1]

\* C9: with the trainable flag of d1 and d0 off, every train step of d1
\* changes d1's parameters and those of no other network, and every train
\* step of d0 changes d0's and no other's.
C9_DiscriminatorsTrain ==
    [][ /\ ncalls'["d1"] # ncalls["d1"] =>
              /\ ~trainable["d1"]
              /\ w'["d1"] # w["d1"]
              /\ \A n \in Nets \ {"d1"} : w'[n] = w[n]
        /\ ncalls'["d0"] # ncalls["d0"] =>
              /\ ~trainable["d0"]
              /\ w'["d0"] # w["d0"]
              /\ \A n \in Nets \ {"d0"} : w'[n] = w[n] ]_vars

C9_Witness ==
    /\ Trained_
    /\ ~trainable["d1"]
    /\ ~trainable["d0"]
    /\ w["d1"].ver = train_steps
    /\ w["d0"].ver = train_steps

\* C10: a1 is trained on (labels, z1) with targets [ones, z1, labels], a0 on
\* (features, z0) with targets [ones, z0, features], and every row of the
\* labels is one-hot.
OneHot(row) ==
    /\ \A j \in DOMAIN row : row[j] \in {0, 1}
    /\ Cardinality({j \in DOMAIN row : row[j] = 1}) = 1

C10_AdversarialTargets ==
    /\ ncalls["a1"] > 0 =>
          LET c == fed["a1"] IN
          /\ Len(c.x) = 2
          /\ Len(c.x[1]) = batch_size
          /\ Len(c.x[2]) = batch_size
          /\ c.y = <<Ones(batch_size), c.x[2], c.x[1]>>
          /\ \A r \in RealRows :
                OneHot(c.x[1][r]) /\ DOMAIN c.x[1][r] = 0..(num_labels - 1)
    /\ ncalls["a0"] > 0 =>
          LET c == fed["a0"] IN
          /\ Len(c.x) = 2
          /\ Len(c.x[1]) = batch_size
          /\ Len(c.x[2]) = batch_size
          /\ c.y = <<Ones(batch_size), c.x[2], c.x[1]>>

C10_Witness ==
    /\ ncalls["a0"] = 2
    /\ fed["a1"].x[1][1] # fed["a1"].x[1][2]
    /\ fed["a0"].y[1] = Ones(batch_size)

====
